---- MODULE Spec2Model ----
(***************************************************************************)
(* Chat completion dispatch and execution of Open WebUI with Agent Mode:   *)
(* the inlet/outlet filter pipeline, the routing of a request to one       *)
(* execution handler, the streaming of its output through the middleware   *)
(* with persistence of content, errors and cancellations, and the          *)
(* permission-scoped tool adapter handed to running agents.                *)
(*                                                                         *)
(* The module holds one specification per component; each moves only its   *)
(* own variables and leaves the other components idle:                     *)
(*   SpecFilter    process_pipeline_inlet_filter / _outlet_filter          *)
(*   SpecDispatch  routing, handler execution, middleware, persistence     *)
(*   SpecTools     OpenWebUIToolAdapter and agent_tools.call_agent         *)
(***************************************************************************)
EXTENDS Integers, Sequences, FiniteSets, TLC

VARIABLES
    \* ---- filter pipeline (pipelines.py) ----
    fPhase,         \* "inlet" or "outlet": which of the two passes this call is
    fSupplied,      \* the filters bound to the request, in the order supplied
    fSorted,        \* the filters as sorted at call time
    fIdx,           \* position of the loop in fSorted
    fPayload,       \* the current payload: the outputs applied so far, in order
    fLog,           \* the invocations made so far: <<[id, result], ...>>
    fPc,            \* "recv" | "loop" | "returned" | "aborted"
    \* ---- dispatch of one request (main.py, chat.py, openai.py, middleware.py) ----
    dModel,         \* the model descriptor the request names
    dMember,        \* the member an arena descriptor was resolved to, or NoModel
    dRealtime,      \* ENABLE_REALTIME_CHAT_SAVE
    dRoute,         \* the routing branch taken for dModel, "none" before routing
    dHandler,       \* the execution handler selected, "none" before selection
    dHState,        \* the handler invocation's state, Idle .. Completed|Error|Cancelled
    dFailure,       \* how the handler failed, "none" if it did not
    dStream,        \* the chunks the backend has still to produce
    content_blocks, \* the middleware's accumulator of received content
    dEvents,        \* the output events emitted so far
    db,             \* persistence: the chat message record and the upserts made
    dHttp,          \* the caller-facing response: NoResponse, or [status, detail]
    dPc,            \* "recv" | "arena" | "dispatched" | "ended"
    dInvokes,       \* how many times the selected handler has been invoked
    dBackend,       \* the backend's error answer: NoResponse, or [status, detail]
    dSignal,        \* the cancellation signal of the request: [set, reason]
    dResources,     \* response, session and worker: "none" | "open" | "closed"
    dExternal,      \* the handler's external call: "none" | "in_flight" | "returned"
    dCaller,        \* connection 1: [lost, received], the blocks received at the loss
    \* ---- tool adapter and call_agent (openwebui_tool_adapter.py, agent_tools.py) ----
    tPerm,          \* the tool permissions: the <<user, tool>> pairs granted
    tUser,          \* the user who sent the request
    tStack,         \* the running agents, the one the user selected first
    tLog,           \* the tool invocations decided so far
    tPc,            \* "ready"
    \* ---- workflow agent (agent_executor.py, _execute_llamaindex_workflow_agent) ----
    wEdges,         \* the "edges" of the workflow definition: <<from, to>> pairs
    wStarted,       \* the nodes started so far, each with the nodes complete then
    wRunning,       \* the node executing, "none" between two nodes
    wDone,          \* the nodes that have completed
    wFailed,        \* the node that failed, "none" if none did
    wEvents,        \* the output events of the run
    wDb,            \* persistence: the chat message record of the run
    wPc,            \* "loaded" | "walking" | "halted" | "ended"
    \* ---- two requests served at once (middleware.py, one task per request) ----
    cReq,           \* per request: its metadata ids, stream, accumulator, state
    cDb,            \* persistence: the message records by id, and who wrote them
    \* ---- pipeline server bridge (pipeline_modules/utils.py) ----
    async_gen,      \* the chunks the asynchronous generator has still to produce
    thread_queue,   \* the queue between the background thread and the main thread
    bPushed,        \* everything the background thread has put, in order
    bYielded,       \* everything the main thread has yielded, in order
    bProducer,      \* background thread: "running" | "done" | "raised"
    bConsumer,      \* main thread: "waiting" | "stopped"
    \* ---- admin front end (agents.ts, Agents.svelte, AgentEditor.svelte) ----
    aServer,        \* the agents the server holds: a set of [id, definition]
    agents,         \* the `agents` store
    aCalls,         \* the API calls in progress: kind, id, position, response
    agentId,        \* the agentId prop of AgentEditor, "null" for a new agent
    agent,          \* the `agent` variable of AgentEditor, bound to the form
    eFetch,         \* the id AgentEditor's fetch asked for, "none" if no fetch
    ePc             \* AgentEditor: "closed" | "created" | "mounted"

filterVars == <<fPhase, fSupplied, fSorted, fIdx, fPayload, fLog, fPc>>

dispatchVars == <<dModel, dMember, dRealtime, dRoute, dHandler, dHState, dFailure,
                  dStream, content_blocks, dEvents, db, dHttp, dPc, dInvokes,
                  dBackend, dSignal, dResources, dExternal, dCaller>>

toolVars == <<tPerm, tUser, tStack, tLog, tPc>>

workflowVars == <<wEdges, wStarted, wRunning, wDone, wFailed, wEvents, wDb, wPc>>

concurrentVars == <<cReq, cDb>>

bridgeVars == <<async_gen, thread_queue, bPushed, bYielded, bProducer, bConsumer>>

adminVars == <<aServer, agents, aCalls, agentId, agent, eFetch, ePc>>

vars == <<filterVars, dispatchVars, toolVars, workflowVars, concurrentVars,
          bridgeVars, adminVars>>

\* What each component leaves alone.
notFilterVars == <<dispatchVars, toolVars, workflowVars, concurrentVars, bridgeVars,
    adminVars>>
notDispatchVars == <<filterVars, toolVars, workflowVars, concurrentVars, bridgeVars,
    adminVars>>
notToolVars == <<filterVars, dispatchVars, workflowVars, concurrentVars, bridgeVars,
    adminVars>>
notWorkflowVars == <<filterVars, dispatchVars, toolVars, concurrentVars, bridgeVars,
    adminVars>>
notConcurrentVars == <<filterVars, dispatchVars, toolVars, workflowVars, bridgeVars,
    adminVars>>
notAdminVars == <<filterVars, dispatchVars, toolVars, workflowVars, concurrentVars,
    bridgeVars>>
notBridgeVars == <<filterVars, dispatchVars, toolVars, workflowVars, concurrentVars,
    adminVars>>

(***************************************************************************)
(* Bounds of the model.                                                    *)
(***************************************************************************)
NFilters == 3
MaxPriority == 2
MaxChunks == 2
MaxDepth == 2
MaxItems == 3
NCalls == 2

(***************************************************************************)
(* Generic helpers.                                                        *)
(***************************************************************************)
Range(s) == {s[i] : i \in DOMAIN s}

\* All sequences over S without repetition that enumerate exactly S.
Perms(S) == {s \in [1..Cardinality(S) -> S] : Range(s) = S}

(***************************************************************************)
(* The idle state of each component: what it is while another component's  *)
(* specification runs.                                                     *)
(***************************************************************************)
NoModel == [agent_type |-> "none", pipe |-> FALSE, owned_by |-> "none"]
NoResponse == [status |-> 0, detail |-> "none"]
NoSignal == [set |-> FALSE, reason |-> "none"]
Connected == [lost |-> FALSE, received |-> 0]

\* The turn before any write: an empty content accumulator, no write made.
EmptyTurn == [message |-> [content |-> ""], writes |-> <<>>]

FilterIdle ==
    /\ fPhase = "inlet"
    /\ fSupplied = <<>>
    /\ fSorted = <<>>
    /\ fIdx = 0
    /\ fPayload = <<>>
    /\ fLog = <<>>
    /\ fPc = "idle"

DispatchIdle ==
    /\ dModel = NoModel
    /\ dMember = NoModel
    /\ dRealtime = FALSE
    /\ dRoute = "none"
    /\ dHandler = "none"
    /\ dHState = "Idle"
    /\ dFailure = "none"
    /\ dStream = <<>>
    /\ content_blocks = <<>>
    /\ dEvents = <<>>
    /\ db = EmptyTurn
    /\ dHttp = NoResponse
    /\ dPc = "idle"
    /\ dInvokes = 0
    /\ dBackend = NoResponse
    /\ dSignal = NoSignal
    /\ dResources = "none"
    /\ dExternal = "none"
    /\ dCaller = Connected

ToolsIdle ==
    /\ tPerm = {}
    /\ tUser = "none"
    /\ tStack = <<>>
    /\ tLog = {}
    /\ tPc = "idle"

WorkflowIdle ==
    /\ wEdges = {}
    /\ wStarted = <<>>
    /\ wRunning = "none"
    /\ wDone = {}
    /\ wFailed = "none"
    /\ wEvents = <<>>
    /\ wDb = EmptyTurn
    /\ wPc = "idle"

ConcurrentIdle ==
    /\ cReq = <<>>
    /\ cDb = <<>>

BridgeIdle ==
    /\ async_gen = <<>>
    /\ thread_queue = <<>>
    /\ bPushed = <<>>
    /\ bYielded = <<>>
    /\ bProducer = "idle"
    /\ bConsumer = "idle"

AdminIdle ==
    /\ aServer = {}
    /\ agents = {}
    /\ aCalls = <<>>
    /\ agentId = "null"
    /\ agent = [id |-> ""]
    /\ eFetch = "none"
    /\ ePc = "idle"

(***************************************************************************)
(* Filter pipeline.                                                        *)
(***************************************************************************)
FilterResults == {"ok", "network_error", "timeout", "non_2xx"}

\* Insert f behind every element whose priority is not larger: the position
\* a stable sort on the priority alone gives it.
RECURSIVE InsertByPriority(_, _)
InsertByPriority(f, s) ==
    IF s = <<>> THEN <<f>>
    ELSE IF f.priority < Head(s).priority THEN <<f>> \o s
    ELSE <<Head(s)>> \o InsertByPriority(f, Tail(s))

RECURSIVE SortFrom(_, _)
SortFrom(s, acc) ==
    IF s = <<>> THEN acc ELSE SortFrom(Tail(s), InsertByPriority(Head(s), acc))

\* A plausible slip: the list is used as supplied.
get_sorted_filters_unsorted(filters) == filters

\* sorted(filters, key=priority): the key is the priority alone, and the sort
\* keeps the supplied order among equal keys.
get_sorted_filters(filters) == SortFrom(filters, <<>>)

\* What a filter endpoint returns on success: the payload with this filter's
\* transformation applied on top (order-sensitive on purpose).
FilterOutput(f, payload) == Append(payload, f.id)

\* A plausible slip: a failed filter breaks the chain.
FilterStepAbort(f, payload, result) ==
    IF result = "ok"
    THEN [payload |-> FilterOutput(f, payload), pc |-> "loop"]
    ELSE [payload |-> payload, pc |-> "aborted"]

\* A plausible slip: the body of the failed response replaces the payload.
FilterStepClobber(f, payload, result) ==
    IF result = "ok"
    THEN [payload |-> FilterOutput(f, payload), pc |-> "loop"]
    ELSE [payload |-> <<>>, pc |-> "loop"]

\* One turn of the loop: POST {url}/{filter_id}/filter/{inlet,outlet}; on
\* success the payload becomes the response, on any failure the exception is
\* logged and the loop goes on with the payload unchanged.
FilterStep(f, payload, result) ==
    IF result = "ok"
    THEN [payload |-> FilterOutput(f, payload), pc |-> "loop"]
    ELSE [payload |-> payload, pc |-> "loop"]

FilterInit ==
    /\ fPhase \in {"inlet", "outlet"}
    /\ \E n \in 1..NFilters :
         \E order \in Perms(1..n) :
           \E prio \in [1..n -> 1..MaxPriority] :
             fSupplied = [i \in 1..n |-> [id |-> order[i], priority |-> prio[order[i]]]]
    /\ fSorted = <<>>
    /\ fIdx = 0
    /\ fPayload = <<>>
    /\ fLog = <<>>
    /\ fPc = "recv"
    /\ DispatchIdle
    /\ ToolsIdle
    /\ WorkflowIdle
    /\ ConcurrentIdle
    /\ BridgeIdle
    /\ AdminIdle

\* process_pipeline_inlet_filter / process_pipeline_outlet_filter, entry:
\* the filters are sorted at call time.
SortFilters ==
    /\ fPc = "recv"
    /\ fSorted' = get_sorted_filters(fSupplied)
    /\ fIdx' = 1
    /\ fPc' = "loop"
    /\ UNCHANGED <<fPhase, fSupplied, fPayload, fLog>>
    /\ UNCHANGED notFilterVars

\* The loop body for the filter at fIdx, with the outcome of its HTTP call.
InvokeFilter ==
    /\ fPc = "loop"
    /\ fIdx <= Len(fSorted)
    /\ \E result \in FilterResults :
         LET f == fSorted[fIdx]
             step == FilterStep(f, fPayload, result)
         IN /\ fPayload' = step.payload
            /\ fPc' = step.pc
            /\ fLog' = Append(fLog, [id |-> f.id, result |-> result])
    /\ fIdx' = fIdx + 1
    /\ UNCHANGED <<fPhase, fSupplied, fSorted>>
    /\ UNCHANGED notFilterVars

\* The loop is over: the payload goes back to the middleware (inlet: on to
\* the dispatcher; outlet: on to the caller).
ReturnPayload ==
    /\ fPc = "loop"
    /\ fIdx > Len(fSorted)
    /\ fPc' = "returned"
    /\ UNCHANGED <<fPhase, fSupplied, fSorted, fIdx, fPayload, fLog>>
    /\ UNCHANGED notFilterVars

FilterNext == SortFilters \/ InvokeFilter \/ ReturnPayload

SpecFilter == FilterInit /\ [][FilterNext]_vars

(***************************************************************************)
(* Properties of the filter pipeline.                                      *)
(***************************************************************************)
\* The position of filter f in the sequence s (f occurs once).
PosIn(s, f) == CHOOSE i \in DOMAIN s : s[i] = f

\* (priority, id) order: the order the descriptor's ordering invariant names.
BeforeByPriorityId(a, b) ==
    \/ a.priority < b.priority
    \/ (a.priority = b.priority /\ a.id < b.id)

\* The outputs of the succeeded invocations of a log, composed in log order.
RECURSIVE ComposeSucceeded(_, _)
ComposeSucceeded(log, payload) ==
    IF log = <<>> THEN payload
    ELSE ComposeSucceeded(Tail(log),
                          IF Head(log).result = "ok"
                          THEN FilterOutput(Head(log), payload)
                          ELSE payload)

C7_Original ==
    fPc # "recv" =>
      \A i, j \in DOMAIN fSorted :
         i < j => BeforeByPriorityId(fSorted[i], fSorted[j])

\* C7 amended: the invocation order is ascending priority; filters of equal
\* priority keep the order in which they were supplied (their ids play no
\* part), so the order is independent of the supply order only where the
\* priorities differ.
C7_PriorityOrderStable ==
    fPc # "recv" =>
      /\ Len(fSorted) = Len(fSupplied)
      /\ Range(fSorted) = Range(fSupplied)
      /\ \A i, j \in DOMAIN fSorted :
           i < j =>
             /\ fSorted[i].priority <= fSorted[j].priority
             /\ fSorted[i].priority = fSorted[j].priority =>
                  PosIn(fSupplied, fSorted[i]) < PosIn(fSupplied, fSorted[j])
      /\ \A j \in DOMAIN fLog : fLog[j].id = fSorted[j].id

\* C7 witness: two filters of equal priority supplied with the larger id
\* first were both invoked, the larger id first.
C7_Witness ==
    /\ fPc = "returned"
    /\ Len(fLog) >= 2
    /\ fSorted[1].priority = fSorted[2].priority
    /\ fSorted[1].id > fSorted[2].id
    /\ fLog[1].id = fSorted[1].id
    /\ fLog[2].id = fSorted[2].id

\* C8: a failed filter is the identity on the payload: at every point the
\* payload is the composition, in invocation order, of the outputs of the
\* filters that succeeded, and that is what is handed on when the call
\* returns.
C8_FailedFilterIsIdentity ==
    fPc \in {"loop", "returned"} => fPayload = ComposeSucceeded(fLog, <<>>)

\* C8 witness: the inlet filter of priority 1 timed out, the one of priority 2
\* succeeded, and the request goes on with filter 2's output on the original
\* payload.
C8_Witness ==
    /\ fPhase = "inlet"
    /\ fPc = "returned"
    /\ Len(fLog) = 2
    /\ fSorted[1].priority = 1
    /\ fSorted[2].priority = 2
    /\ fLog[1].result = "timeout"
    /\ fLog[2].result = "ok"
    /\ fPayload = <<fSorted[2].id>>

(***************************************************************************)
(* Dispatch of one chat completion request.                                *)
(***************************************************************************)
Chunks == {"Hello", " world"}

\* All sequences over S of length at most n.
SeqsUpTo(S, n) == UNION {[1..k -> S] : k \in 0..n}

\* A model descriptor: the agent type of an agent ("none" for a plain
\* model), the "pipe" flag of an embedded function, and "owned_by".
ModelDescriptors ==
    [agent_type : {"none", "custom_python", "llamaindex_workflow"},
     pipe : BOOLEAN,
     owned_by : {"arena", "ollama", "openai"}]

\* The models an arena descriptor can resolve to: plain models that are not
\* themselves arena groups.
ArenaMembers ==
    {m \in ModelDescriptors : m.agent_type = "none" /\ m.owned_by # "arena"}

\* A plausible slip: the branches of the chain in another order.
generate_chat_completion_arena_first(m) ==
    IF m.owned_by = "arena" THEN "arena"
    ELSE IF m.pipe THEN "function"
    ELSE IF m.owned_by = "ollama" THEN "ollama"
    ELSE "openai"

\* generate_chat_completion (chat.py): the branch taken, first match first.
generate_chat_completion(m) ==
    IF m.pipe THEN "function"
    ELSE IF m.owned_by = "arena" THEN "arena"
    ELSE IF m.owned_by = "ollama" THEN "ollama"
    ELSE "openai"

\* The endpoint (main.py) detects an agent request and routes it to the agent
\* executor; every other request goes down to generate_chat_completion.
RouteOf(m) ==
    IF m.agent_type # "none" THEN "agent" ELSE generate_chat_completion(m)

\* AgentExecutor: the execution method is picked by agent_type.
AgentHandlerOf(m) ==
    IF m.agent_type = "custom_python" THEN "CustomAgentHandler"
    ELSE "WorkflowAgentHandler"

\* The handler behind each routing branch.
HandlerOf(route, m) ==
    CASE route = "agent" -> AgentHandlerOf(m)
      [] route = "function" -> "EmbeddedFunctionHandler"
      [] route = "ollama" -> "LocalRuntimeHandler"
      [] route = "openai" -> "RemoteServerHandler"

\* The handlers that reach their backend over HTTP (connection 2).
NetworkHandlers == {"LocalRuntimeHandler", "RemoteServerHandler"}

\* The handlers that run inside the backend process.
InProcessHandlers ==
    {"EmbeddedFunctionHandler", "CustomAgentHandler", "WorkflowAgentHandler"}

\* serialize_content_blocks: the received blocks joined into the content text.
RECURSIVE serialize_content_blocks(_)
serialize_content_blocks(blocks) ==
    IF blocks = <<>> THEN ""
    ELSE Head(blocks) \o serialize_content_blocks(Tail(blocks))

\* Chats.upsert_message_to_chat_by_id_and_message_id: the fields given
\* replace the record's, the others stay.
upsert_message(store, fields) ==
    [message |-> [k \in (DOMAIN store.message) \cup (DOMAIN fields) |->
                    IF k \in DOMAIN fields THEN fields[k] ELSE store.message[k]],
     writes |-> Append(store.writes, fields)]

Event(type, data) == [type |-> type, data |-> data]

DispatchInit ==
    /\ dModel \in ModelDescriptors
    /\ dMember = NoModel
    /\ dRealtime \in BOOLEAN
    /\ dRoute = "none"
    /\ dHandler = "none"
    /\ dHState = "Idle"
    /\ dFailure = "none"
    /\ dStream \in SeqsUpTo(Chunks, MaxChunks)
    /\ content_blocks = <<>>
    /\ dEvents = <<>>
    /\ db = EmptyTurn
    /\ dHttp = NoResponse
    /\ dPc = "recv"
    /\ dInvokes = 0
    /\ dBackend = NoResponse
    /\ dSignal = NoSignal
    /\ dResources = "none"
    /\ dExternal = "none"
    /\ dCaller = Connected
    /\ FilterIdle
    /\ ToolsIdle
    /\ WorkflowIdle
    /\ ConcurrentIdle
    /\ BridgeIdle
    /\ AdminIdle

\* A plausible slip: an arena request is given the default handler at once,
\* and the handler of the selected member on top of it.
ClassifyArenaDefault ==
    /\ dPc = "recv"
    /\ dRoute' = RouteOf(dModel)
    /\ IF dRoute' = "arena"
       THEN /\ dPc' = "arena"
            /\ dHandler' = "RemoteServerHandler"
       ELSE /\ dPc' = "dispatched"
            /\ dHandler' = HandlerOf(dRoute', dModel)
    /\ UNCHANGED <<dInvokes, dBackend>>
    /\ UNCHANGED <<dModel, dMember, dRealtime, dHState, dFailure, dStream,
                   content_blocks, dEvents, db, dHttp>>
    /\ UNCHANGED <<dSignal, dResources, dExternal, dCaller>>
    /\ UNCHANGED notDispatchVars

\* A plausible slip: a chunk of the backend is still taken after the run
\* has ended.
StreamChunkAfterEnd ==
    /\ dPc \in {"dispatched", "ended"}
    /\ dHState \in {"Streaming", "Cancelled", "Error"}
    /\ dStream # <<>>
    /\ content_blocks' = Append(content_blocks, Head(dStream))
    /\ dStream' = Tail(dStream)
    /\ dEvents' = Append(dEvents, Event("PartialContent", Head(dStream)))
    /\ db' = db
    /\ UNCHANGED <<dInvokes, dBackend>>
    /\ UNCHANGED <<dModel, dMember, dRealtime, dRoute, dHandler, dHState, dFailure,
                   dHttp, dPc>>
    /\ UNCHANGED <<dSignal, dResources, dExternal, dCaller>>
    /\ UNCHANGED notDispatchVars

\* POST /api/chat/completions: the request is routed. An arena descriptor
\* has no handler of its own and goes on to the selection of a member.
Classify ==
    /\ dPc = "recv"
    /\ dRoute' = RouteOf(dModel)
    /\ IF dRoute' = "arena"
       THEN /\ dPc' = "arena"
            /\ UNCHANGED dHandler
       ELSE /\ dPc' = "dispatched"
            /\ dHandler' = HandlerOf(dRoute', dModel)
    /\ UNCHANGED <<dInvokes, dBackend>>
    /\ UNCHANGED <<dModel, dMember, dRealtime, dHState, dFailure, dStream,
                   content_blocks, dEvents, db, dHttp>>
    /\ UNCHANGED <<dSignal, dResources, dExternal, dCaller>>
    /\ UNCHANGED notDispatchVars

\* Arena mode: one member is selected at random and the chain of
\* generate_chat_completion runs again on it.
ArenaSelect ==
    /\ dPc = "arena"
    /\ \E m \in ArenaMembers :
         /\ dMember' = m
         /\ dHandler' = HandlerOf(generate_chat_completion(m), m)
    /\ dPc' = "dispatched"
    /\ UNCHANGED <<dInvokes, dBackend>>
    /\ UNCHANGED <<dModel, dRealtime, dRoute, dHState, dFailure, dStream,
                   content_blocks, dEvents, db, dHttp>>
    /\ UNCHANGED <<dSignal, dResources, dExternal, dCaller>>
    /\ UNCHANGED notDispatchVars

\* The message a failed backend call is persisted with (openai.py): a
\* ClientError is prefixed, anything else is str(e).
ErrorMessage(kind) ==
    CASE kind = "client_error" -> "Pipeline connection error: e"
      [] kind = "timeout" -> "timeout"
      [] kind = "http_error" -> "backend detail"
      [] kind = "internal" -> "function error"

\* The error upsert: {"error": {"content": error_message}} on the message.
PersistError(store, kind) ==
    upsert_message(store, [error |-> ErrorMessage(kind)])

\* The content upsert: {"content": serialize_content_blocks(content_blocks)}.
PersistContent(store, blocks) ==
    upsert_message(store, [content |-> serialize_content_blocks(blocks)])

\* A plausible slip: every chunk is saved whatever the setting.
ChunkSaveAlways(store, blocks, realtime) == PersistContent(store, blocks)

\* ENABLE_REALTIME_CHAT_SAVE: True saves with each chunk received, False only
\* after the stream ends or on CancelledError.
ChunkSave(store, blocks, realtime) ==
    IF realtime THEN PersistContent(store, blocks) ELSE store

\* The Router invokes the selected handler.
Invoke ==
    /\ dPc = "dispatched"
    /\ dHState = "Idle"
    /\ dHState' = "Running"
    /\ dInvokes' = dInvokes + 1
    /\ UNCHANGED dBackend
    /\ UNCHANGED <<dModel, dMember, dRealtime, dRoute, dHandler, dFailure, dStream,
                   content_blocks, dEvents, db, dHttp, dPc>>
    /\ UNCHANGED <<dSignal, dResources, dExternal, dCaller>>
    /\ UNCHANGED notDispatchVars

\* An in-process handler starts to produce; a network handler's POST
\* {url}/chat/completions is answered 200 and the StreamingResponse is
\* returned with the backend's status.
StartStreaming ==
    /\ dPc = "dispatched"
    /\ dHState = "Running"
    /\ dHState' = "Streaming"
    /\ dHttp' = [status |-> 200, detail |-> "stream"]
    /\ dResources' = "open"
    /\ UNCHANGED <<dInvokes, dBackend>>
    /\ UNCHANGED <<dModel, dMember, dRealtime, dRoute, dHandler, dFailure, dStream,
                   content_blocks, dEvents, db, dPc>>
    /\ UNCHANGED <<dSignal, dExternal, dCaller>>
    /\ UNCHANGED notDispatchVars

\* A plausible slip: a timeout is answered with a status of its own.
ConnectionErrorResponseOwnTimeout(kind) ==
    IF kind = "timeout"
    THEN [status |-> 504, detail |-> "Gateway Timeout"]
    ELSE [status |-> 500, detail |-> "Server Connection Error"]

\* What the caller is answered when the backend call raises: HTTP 500
\* "Server Connection Error", for asyncio.TimeoutError as for
\* aiohttp.ClientError.
ConnectionErrorResponse(kind) ==
    [status |-> 500, detail |-> "Server Connection Error"]

\* A plausible slip: the backend call is made again after it failed.
ConnectFailRetry ==
    /\ dPc = "dispatched"
    /\ dHState = "Running"
    /\ dHandler \in NetworkHandlers
    /\ \E kind \in {"timeout", "client_error"} :
         /\ dFailure' = kind
         /\ db' = PersistError(db, kind)
    /\ dHState' = "Idle"
    /\ UNCHANGED <<dInvokes, dBackend>>
    /\ UNCHANGED <<dModel, dMember, dRealtime, dRoute, dHandler, dStream,
                   content_blocks, dEvents, dHttp, dPc>>
    /\ UNCHANGED <<dSignal, dResources, dExternal, dCaller>>
    /\ UNCHANGED notDispatchVars

\* openai.py, except branch: asyncio.TimeoutError or aiohttp.ClientError on
\* the backend call. The error is upserted to the chat message, then HTTP 500
\* "Server Connection Error" is raised.
ConnectFail ==
    /\ dPc = "dispatched"
    /\ dHState = "Running"
    /\ dHandler \in NetworkHandlers
    /\ \E kind \in {"timeout", "client_error"} :
         /\ dFailure' = kind
         /\ db' = PersistError(db, kind)
         /\ dHttp' = ConnectionErrorResponse(kind)
    /\ dHState' = "Error"
    /\ dPc' = "ended"
    /\ UNCHANGED <<dInvokes, dBackend>>
    /\ UNCHANGED <<dModel, dMember, dRealtime, dRoute, dHandler, dStream,
                   content_blocks, dEvents>>
    /\ UNCHANGED <<dSignal, dResources, dExternal, dCaller>>
    /\ UNCHANGED notDispatchVars

\* The structured errors a backend answers with: bad request, auth failure,
\* quota, and an error of its own (5xx), each with its detail.
BackendErrors ==
    {[status |-> 400, detail |-> "bad request"],
     [status |-> 401, detail |-> "auth failure"],
     [status |-> 429, detail |-> "quota exceeded"],
     [status |-> 503, detail |-> "backend overloaded"]}

\* A plausible slip: a structured error is answered like a connection error.
PropagateHttpErrorMasked(answer) ==
    [status |-> 500, detail |-> "Server Connection Error"]

\* "Extract error from response", then "HTTP {status} with detail".
PropagateHttpError(answer) ==
    [status |-> answer.status, detail |-> answer.detail]

\* openai.py: the backend answers 4xx/5xx with an error detail. The detail is
\* extracted, upserted to the chat message and propagated with the status.
ConnectHttpError ==
    /\ dPc = "dispatched"
    /\ dHState = "Running"
    /\ dHandler \in NetworkHandlers
    /\ \E answer \in BackendErrors :
         /\ dBackend' = answer
         /\ dHttp' = PropagateHttpError(answer)
    /\ dFailure' = "http_error"
    /\ db' = PersistError(db, "http_error")
    /\ dHState' = "Error"
    /\ dPc' = "ended"
    /\ UNCHANGED dInvokes
    /\ UNCHANGED <<dModel, dMember, dRealtime, dRoute, dHandler, dStream,
                   content_blocks, dEvents>>
    /\ UNCHANGED <<dSignal, dResources, dExternal, dCaller>>
    /\ UNCHANGED notDispatchVars

\* The middleware receives one chunk: it joins the accumulator, goes out as a
\* PartialContent event and, with ENABLE_REALTIME_CHAT_SAVE, is saved at once.
StreamChunk ==
    /\ dPc = "dispatched"
    /\ dHState = "Streaming"
    /\ dExternal # "in_flight"
    /\ dStream # <<>>
    /\ content_blocks' = Append(content_blocks, Head(dStream))
    /\ dStream' = Tail(dStream)
    /\ dEvents' = Append(dEvents, Event("PartialContent", Head(dStream)))
    /\ db' = ChunkSave(db, content_blocks', dRealtime)
    /\ UNCHANGED <<dInvokes, dBackend>>
    /\ UNCHANGED <<dModel, dMember, dRealtime, dRoute, dHandler, dHState, dFailure,
                   dHttp, dPc>>
    /\ UNCHANGED <<dSignal, dResources, dExternal, dCaller>>
    /\ UNCHANGED notDispatchVars

\* The stream ends normally: the complete content is saved.
StreamDone ==
    /\ dPc = "dispatched"
    /\ dHState = "Streaming"
    /\ dExternal # "in_flight"
    /\ dStream = <<>>
    /\ dEvents' = Append(dEvents, Event("Done", ""))
    /\ db' = PersistContent(db, content_blocks)
    /\ dHState' = "Completed"
    /\ dPc' = "ended"
    /\ UNCHANGED <<dInvokes, dBackend>>
    /\ UNCHANGED <<dModel, dMember, dRealtime, dRoute, dHandler, dFailure, dStream,
                   content_blocks, dHttp>>
    /\ UNCHANGED <<dSignal, dResources, dExternal, dCaller>>
    /\ UNCHANGED notDispatchVars

\* Streaming error: the connection to the backend drops mid-stream. The
\* background task cleanup_response closes response and session and the
\* caller is left with the partial response; nothing is upserted.
StreamDrop ==
    /\ dPc = "dispatched"
    /\ dHState = "Streaming"
    /\ dHandler \in NetworkHandlers
    /\ dFailure' = "stream_drop"
    /\ dHState' = "Error"
    /\ dPc' = "ended"
    /\ UNCHANGED <<dInvokes, dBackend>>
    /\ UNCHANGED <<dModel, dMember, dRealtime, dRoute, dHandler, dStream,
                   content_blocks, dEvents, db, dHttp>>
    /\ UNCHANGED <<dSignal, dResources, dExternal, dCaller>>
    /\ UNCHANGED notDispatchVars

\* A plausible slip: the exception of the handler propagates and the request
\* is answered with a server error.
InternalErrorRaised ==
    /\ dPc = "dispatched"
    /\ dHState = "Streaming"
    /\ dHandler \in InProcessHandlers
    /\ dFailure' = "internal"
    /\ dHttp' = [status |-> 500, detail |-> "Server Connection Error"]
    /\ db' = PersistError(db, "internal")
    /\ dHState' = "Error"
    /\ dPc' = "ended"
    /\ UNCHANGED <<dInvokes, dBackend>>
    /\ UNCHANGED <<dModel, dMember, dRealtime, dRoute, dHandler, dStream,
                   content_blocks, dEvents>>
    /\ UNCHANGED <<dSignal, dResources, dExternal, dCaller>>
    /\ UNCHANGED notDispatchVars

\* Internal function error: an in-process handler raises in its own logic.
\* The error is returned in the response body (no HTTP error is raised) and
\* saved as {"error": ...} on the message.
InternalError ==
    /\ dPc = "dispatched"
    /\ dHState = "Streaming"
    /\ dHandler \in InProcessHandlers
    /\ dFailure' = "internal"
    /\ dEvents' = Append(dEvents, Event("Error", ErrorMessage("internal")))
    /\ db' = PersistError(db, "internal")
    /\ dHState' = "Error"
    /\ dPc' = "ended"
    /\ UNCHANGED <<dInvokes, dBackend>>
    /\ UNCHANGED <<dModel, dMember, dRealtime, dRoute, dHandler, dStream,
                   content_blocks, dHttp>>
    /\ UNCHANGED <<dSignal, dResources, dExternal, dCaller>>
    /\ UNCHANGED notDispatchVars

\* A plausible slip: the save on cancellation is made in neither mode.
CancelSaveNever(store, blocks, realtime) == store

\* A plausible slip: the cancellation is saved as an error of the message.
CancelSaveAsError(store, blocks, realtime) ==
    upsert_message(store, [content |-> serialize_content_blocks(blocks),
                           error |-> "Task was cancelled!"])

\* except asyncio.CancelledError: without ENABLE_REALTIME_CHAT_SAVE the
\* content received so far is saved now; with it, every chunk already was.
CancelSave(store, blocks, realtime) ==
    IF ~realtime THEN PersistContent(store, blocks) ELSE store

\* A plausible slip: a cancellation that arrives after the run has ended is
\* still answered with "task-cancelled".
CancelAfterEnd ==
    /\ dPc \in {"dispatched", "ended"}
    /\ dHState \in {"Streaming", "Completed", "Error"}
    /\ dEvents' = Append(dEvents, Event("task-cancelled", ""))
    /\ db' = CancelSave(db, content_blocks, dRealtime)
    /\ dHState' = "Cancelled"
    /\ dPc' = "ended"
    /\ UNCHANGED <<dInvokes, dBackend>>
    /\ UNCHANGED <<dModel, dMember, dRealtime, dRoute, dHandler, dFailure, dStream,
                   content_blocks, dHttp>>
    /\ UNCHANGED <<dSignal, dResources, dExternal, dCaller>>
    /\ UNCHANGED notDispatchVars

\* A plausible slip: the resources are released first and the content
\* received so far is never written.
CancelTeardownFirst ==
    /\ dPc = "dispatched"
    /\ dHState = "Streaming"
    /\ dSignal.set
    /\ dEvents' = Append(dEvents, Event("task-cancelled", ""))
    /\ dResources' = "closed"
    /\ dHState' = "Cancelled"
    /\ dPc' = "ended"
    /\ UNCHANGED <<dInvokes, dBackend>>
    /\ UNCHANGED <<dModel, dMember, dRealtime, dRoute, dHandler, dFailure, dStream,
                   content_blocks, db, dHttp>>
    /\ UNCHANGED <<dSignal, dExternal, dCaller>>
    /\ UNCHANGED notDispatchVars

\* The task is cancelled between two chunks: "task-cancelled" is emitted,
\* then the save above.
Cancel ==
    /\ dPc = "dispatched"
    /\ dHState = "Streaming"
    /\ dSignal.set
    /\ dEvents' = Append(dEvents, Event("task-cancelled", ""))
    /\ db' = CancelSave(db, content_blocks, dRealtime)
    /\ dHState' = "Cancelled"
    /\ dPc' = "ended"
    /\ UNCHANGED <<dInvokes, dBackend>>
    /\ UNCHANGED <<dModel, dMember, dRealtime, dRoute, dHandler, dFailure, dStream,
                   content_blocks, dHttp>>
    /\ UNCHANGED <<dSignal, dResources, dExternal, dCaller>>
    /\ UNCHANGED notDispatchVars

\* The writers of the cancellation signal.
SignalWriters == {"caller-abort", "coordinator"}

\* A plausible slip: a later abort replaces the reason of an earlier one.
SetSignalOverwrite(signal, reason) == [set |-> TRUE, reason |-> reason]

\* The signal is set once: a later abort finds it set and leaves it.
SetSignal(signal, reason) ==
    IF signal.set THEN signal ELSE [set |-> TRUE, reason |-> reason]

\* The caller aborts the request, or the coordinator stops its task: the
\* signal is set, to be observed at the next suspension point.
Abort ==
    /\ dPc = "dispatched"
    /\ \E reason \in SignalWriters : dSignal' = SetSignal(dSignal, reason)
    /\ UNCHANGED <<dInvokes, dBackend>>
    /\ UNCHANGED <<dModel, dMember, dRealtime, dRoute, dHandler, dHState, dFailure,
                   dStream, content_blocks, dEvents, db, dHttp, dPc>>
    /\ UNCHANGED <<dResources, dExternal, dCaller>>
    /\ UNCHANGED notDispatchVars

\* The handler's side calls an external service (connection 3) and blocks
\* on it, for as long as an interactive authorization may take.
ExternalCallStart ==
    /\ dPc = "dispatched"
    /\ dHState \in {"Running", "Streaming"}
    /\ dExternal = "none"
    /\ dExternal' = "in_flight"
    /\ UNCHANGED <<dInvokes, dBackend>>
    /\ UNCHANGED <<dModel, dMember, dRealtime, dRoute, dHandler, dHState, dFailure,
                   dStream, content_blocks, dEvents, db, dHttp, dPc>>
    /\ UNCHANGED <<dSignal, dResources, dCaller>>
    /\ UNCHANGED notDispatchVars

\* The external call returns or times out by its own timeout, whether or
\* not anybody still waits for it.
ExternalCallReturn ==
    /\ dExternal = "in_flight"
    /\ dExternal' = "returned"
    /\ UNCHANGED <<dInvokes, dBackend>>
    /\ UNCHANGED <<dModel, dMember, dRealtime, dRoute, dHandler, dHState, dFailure,
                   dStream, content_blocks, dEvents, db, dHttp, dPc>>
    /\ UNCHANGED <<dSignal, dResources, dCaller>>
    /\ UNCHANGED notDispatchVars

\* A plausible slip: the loss of connection 1 stops the exchange with the
\* backend.
CallerDisconnectStopsBackend ==
    /\ dPc = "dispatched"
    /\ ~dCaller.lost
    /\ dCaller' = [lost |-> TRUE, received |-> Len(content_blocks)]
    /\ dHState' = "Cancelled"
    /\ dPc' = "ended"
    /\ UNCHANGED <<dInvokes, dBackend>>
    /\ UNCHANGED <<dModel, dMember, dRealtime, dRoute, dHandler, dFailure,
                   dStream, content_blocks, dEvents, db, dHttp>>
    /\ UNCHANGED <<dSignal, dResources, dExternal>>
    /\ UNCHANGED notDispatchVars

\* Connection 1 is lost: the user closes the browser or the network drops.
\* Connection 2 is still valid and nothing tells the backend to stop.
CallerDisconnect ==
    /\ dPc = "dispatched"
    /\ ~dCaller.lost
    /\ dCaller' = [lost |-> TRUE, received |-> Len(content_blocks)]
    /\ UNCHANGED <<dInvokes, dBackend>>
    /\ UNCHANGED <<dModel, dMember, dRealtime, dRoute, dHandler, dHState, dFailure,
                   dStream, content_blocks, dEvents, db, dHttp, dPc>>
    /\ UNCHANGED <<dSignal, dResources, dExternal>>
    /\ UNCHANGED notDispatchVars

\* After the request has ended: cleanup_response closes response and
\* session, the worker of the handler is released.
Teardown ==
    /\ dPc = "ended"
    /\ dResources = "open"
    /\ dResources' = "closed"
    /\ UNCHANGED <<dInvokes, dBackend>>
    /\ UNCHANGED <<dModel, dMember, dRealtime, dRoute, dHandler, dHState, dFailure,
                   dStream, content_blocks, dEvents, db, dHttp, dPc>>
    /\ UNCHANGED <<dSignal, dExternal, dCaller>>
    /\ UNCHANGED notDispatchVars

DispatchNext ==
    \/ Abort
    \/ ExternalCallStart
    \/ ExternalCallReturn
    \/ CallerDisconnect
    \/ Teardown
    \/ Classify
    \/ ArenaSelect
    \/ Invoke
    \/ StartStreaming
    \/ ConnectFail
    \/ ConnectHttpError
    \/ StreamChunk
    \/ StreamDone
    \/ StreamDrop
    \/ InternalError
    \/ Cancel

SpecDispatch == DispatchInit /\ [][DispatchNext]_vars

(***************************************************************************)
(* Properties of the dispatch.                                             *)
(***************************************************************************)
\* The text of the PartialContent events of an event sequence, in order.
RECURSIVE EmittedContent(_)
EmittedContent(events) ==
    IF events = <<>> THEN ""
    ELSE (IF Head(events).type = "PartialContent" THEN Head(events).data ELSE "")
         \o EmittedContent(Tail(events))

\* The events that end an output sequence: Completed, Error, Cancelled.
TerminalEvents == {"Done", "Error", "task-cancelled"}

\* The number of terminal events in an event sequence.
TerminalCount(events) ==
    Cardinality({i \in DOMAIN events : events[i].type \in TerminalEvents})

\* C2: after a cancelled streaming run, in either persistence mode, the
\* persisted content is the concatenation, in order, of the PartialContent
\* events emitted before the cancellation: none missing, none twice.
C2_CancelKeepsEmittedContent ==
    dHState = "Cancelled" => db.message.content = EmittedContent(dEvents)

\* C2 witness: a run of two chunks cancelled after the first, saved at the
\* cancellation (no real-time save).
C2_Witness ==
    /\ dHState = "Cancelled"
    /\ ~dRealtime
    /\ dStream = <<" world">>
    /\ db.message.content = "Hello"
    /\ dEvents[1] = Event("PartialContent", "Hello")

\* C3 as stated: after a connection drop in mid-stream the persisted turn
\* holds exactly the content received and an error.
C3_Original ==
    dFailure = "stream_drop" =>
      /\ db.message.content = EmittedContent(dEvents)
      /\ "error" \in DOMAIN db.message

\* C4 as stated: when the response of a request whose handler failed has
\* ended, the error detail has been written to the persisted turn.
C4_Original ==
    (dPc = "ended" /\ dFailure # "none") => "error" \in DOMAIN db.message

ExpectedWrites ==
    (IF dRealtime THEN Len(content_blocks) ELSE 0)
    + (IF dHState = "Completed" THEN 1 ELSE 0)
    + (IF dFailure \in {"timeout", "client_error", "http_error", "internal"}
       THEN 1 ELSE 0)
    + (IF dHState = "Cancelled" /\ ~dRealtime THEN 1 ELSE 0)

C6_OneTerminalEventLast ==
    dHandler \in InProcessHandlers =>
      /\ dPc # "ended" => TerminalCount(dEvents) = 0
      /\ dPc = "ended" =>
           /\ TerminalCount(dEvents) = 1
           /\ dEvents[Len(dEvents)].type =
                (CASE dHState = "Completed" -> "Done"
                   [] dHState = "Error" -> "Error"
                   [] dHState = "Cancelled" -> "task-cancelled")

\* C6 witness: a workflow agent that raised after one chunk ended with the
\* Error event, second and last.
C6_Witness ==
    /\ dHandler = "WorkflowAgentHandler"
    /\ dPc = "ended"
    /\ Len(dEvents) = 2
    /\ dEvents[1].type = "PartialContent"
    /\ dEvents[2].type = "Error"

Matches(rule, m) ==
    CASE rule = "agent" -> m.agent_type # "none"
      [] rule = "function" -> m.pipe
      [] rule = "arena" -> m.owned_by = "arena"
      [] rule = "ollama" -> m.owned_by = "ollama"
      [] rule = "openai" -> TRUE

RuleOrder == <<"agent", "function", "arena", "ollama", "openai">>

Users == {"u1", "u2"}
Tools == {"t1", "t2"}
Agents == {"a1", "a2"}

\* The existing permission check of the core for a tool call.
has_access(user, tool, perm) == <<user, tool>> \in perm

\* The tools the adapter discovers: those the current user may access.
list_available(user, perm) == {t \in Tools : has_access(user, t, perm)}

\* A plausible slip: the adapter runs whatever tool id the agent names.
execute_tool_unchecked(user, tool, perm) == TRUE

\* execute_tool_by_id: the call is proxied back to the core, which applies
\* its usual check for the current user; a tool outside the discovered set
\* is rejected.
execute_tool_by_id(user, tool, perm) ==
    /\ tool \in list_available(user, perm)
    /\ has_access(user, tool, perm)

\* The user a called agent runs for: call_agent(agent_id, message) names no
\* user, the called agent runs in the caller's request.
CalledAgentUser(frame) == frame.user

ToolsInit ==
    /\ tPerm \in SUBSET (Users \X Tools)
    /\ tUser \in Users
    /\ tStack = <<>>
    /\ tLog = {}
    /\ tPc = "ready"
    /\ FilterIdle
    /\ DispatchIdle
    /\ WorkflowIdle
    /\ ConcurrentIdle
    /\ BridgeIdle
    /\ AdminIdle

\* A tool call the user makes directly, outside any agent.
DirectToolCall ==
    /\ tPc = "ready"
    /\ tStack = <<>>
    /\ \E t \in Tools :
         tLog' = tLog \cup {[depth |-> 0, user |-> tUser, tool |-> t,
                             accepted |-> has_access(tUser, t, tPerm)]}
    /\ UNCHANGED <<tPerm, tUser, tStack, tPc>>
    /\ UNCHANGED notToolVars

\* The user selects an agent and sends a message: the agent runs with an
\* adapter for this user.
StartAgent ==
    /\ tPc = "ready"
    /\ tStack = <<>>
    /\ \E a \in Agents : tStack' = <<[agent |-> a, user |-> tUser]>>
    /\ UNCHANGED <<tPerm, tUser, tLog, tPc>>
    /\ UNCHANGED notToolVars

\* The running agent calls openwebui_tool_adapter.execute_tool_by_id with a
\* tool id of its choosing.
AgentToolCall ==
    /\ tPc = "ready"
    /\ tStack # <<>>
    /\ \E t \in Tools :
         LET frame == tStack[Len(tStack)]
         IN tLog' = tLog \cup {[depth |-> Len(tStack), user |-> tUser, tool |-> t,
                                accepted |-> execute_tool_by_id(frame.user, t, tPerm)]}
    /\ UNCHANGED <<tPerm, tUser, tStack, tPc>>
    /\ UNCHANGED notToolVars

\* The running agent calls agent_tools.call_agent: another agent (possibly
\* itself) runs on top of it. The source sets no limit on the nesting; the
\* model stops at MaxDepth.
CallAgent ==
    /\ tPc = "ready"
    /\ tStack # <<>>
    /\ Len(tStack) < MaxDepth
    /\ \E a \in Agents :
         tStack' = Append(tStack,
                      [agent |-> a, user |-> CalledAgentUser(tStack[Len(tStack)])])
    /\ UNCHANGED <<tPerm, tUser, tLog, tPc>>
    /\ UNCHANGED notToolVars

\* The running agent returns its result to its caller.
AgentReturn ==
    /\ tPc = "ready"
    /\ tStack # <<>>
    /\ tStack' = SubSeq(tStack, 1, Len(tStack) - 1)
    /\ UNCHANGED <<tPerm, tUser, tLog, tPc>>
    /\ UNCHANGED notToolVars

ToolsNext ==
    \/ DirectToolCall
    \/ StartAgent
    \/ AgentToolCall
    \/ CallAgent
    \/ AgentReturn

SpecTools == ToolsInit /\ [][ToolsNext]_vars

Nodes == {"start", "search_tool", "llm_step", "end"}

\* The "type" of each node.
NodeType(n) ==
    CASE n = "start" -> "start"
      [] n = "search_tool" -> "tool"
      [] n = "llm_step" -> "llm"
      [] n = "end" -> "end"

\* The nodes a node's declared inputs refer to by "nodeId.fieldName": the
\* input_map of the tool node, the references of the prompt_template, the
\* output_map of the end node.
InputRefs(n) ==
    CASE n = "start" -> {}
      [] n = "search_tool" -> {"start"}
      [] n = "llm_step" -> {"search_tool", "start"}
      [] n = "end" -> {"llm_step"}

\* The "edges" of the example definition.
ExampleEdges ==
    {<<"start", "search_tool">>, <<"search_tool", "llm_step">>,
     <<"llm_step", "end">>}

\* The order in which the definition lists its nodes.
NodeIndex(n) ==
    CASE n = "start" -> 1
      [] n = "search_tool" -> 2
      [] n = "llm_step" -> 3
      [] n = "end" -> 4

\* The definitions walked: every set of edges that runs forward in the
\* listing, acyclic therefore, and gives every node but "start" a source.
Workflows ==
    {E \in SUBSET {<<a, b>> \in Nodes \X Nodes : NodeIndex(a) < NodeIndex(b)} :
        \A n \in Nodes \ {"start"} : \E a \in Nodes : <<a, n>> \in E}

\* The sources of the edges into a node.
Predecessors(n, edges) == {a \in Nodes : <<a, n>> \in edges}

\* A plausible slip: the nodes are taken in any order.
ReadyAny(n, edges, done) == TRUE

\* Topological walk: a node is ready once every source of an edge into it
\* has completed.
Ready(n, edges, done) == Predecessors(n, edges) \subseteq done

WorkflowInit ==
    /\ wEdges \in Workflows
    /\ wStarted = <<>>
    /\ wRunning = "none"
    /\ wDone = {}
    /\ wFailed = "none"
    /\ wEvents = <<>>
    /\ wDb = EmptyTurn
    /\ wPc = "loaded"
    /\ FilterIdle
    /\ DispatchIdle
    /\ ToolsIdle
    /\ ConcurrentIdle
    /\ BridgeIdle
    /\ AdminIdle

\* _execute_llamaindex_workflow_agent: the definition is loaded and the
\* walk begins.
LoadWorkflow ==
    /\ wPc = "loaded"
    /\ wPc' = "walking"
    /\ UNCHANGED <<wEdges, wStarted, wRunning, wDone, wFailed, wEvents, wDb>>
    /\ UNCHANGED notWorkflowVars

\* The interpreter starts the next ready node; one node runs at a time.
StartNode ==
    /\ wPc = "walking"
    /\ wRunning = "none"
    /\ \E n \in Nodes :
         /\ n \notin {wStarted[i].node : i \in DOMAIN wStarted}
         /\ Ready(n, wEdges, wDone)
         /\ wRunning' = n
         /\ wStarted' = Append(wStarted, [node |-> n, done |-> wDone])
    /\ UNCHANGED <<wEdges, wDone, wFailed, wEvents, wDb, wPc>>
    /\ UNCHANGED notWorkflowVars

\* The running node completes. The llm node's output is streamed; the end
\* node maps the answer, the run is complete and its content is saved.
CompleteNode ==
    /\ wPc = "walking"
    /\ wRunning # "none"
    /\ wDone' = wDone \cup {wRunning}
    /\ wRunning' = "none"
    /\ IF NodeType(wRunning) = "end"
       THEN /\ wEvents' = Append(wEvents, Event("Done", ""))
            /\ wDb' = upsert_message(wDb, [content |-> "answer"])
            /\ wPc' = "ended"
       ELSE /\ wEvents' = IF NodeType(wRunning) = "llm"
                          THEN Append(wEvents, Event("PartialContent", "answer"))
                          ELSE wEvents
            /\ UNCHANGED <<wDb, wPc>>
    /\ UNCHANGED <<wEdges, wStarted, wFailed>>
    /\ UNCHANGED notWorkflowVars

\* A plausible slip: the failure is reported but the walk goes on.
FailNodeContinue ==
    /\ wPc = "walking"
    /\ wRunning # "none"
    /\ wFailed = "none"
    /\ wFailed' = wRunning
    /\ wRunning' = "none"
    /\ wDone' = wDone \cup {wRunning}
    /\ wEvents' = Append(wEvents, Event("Error", wRunning))
    /\ wDb' = upsert_message(wDb, [error |-> wRunning])
    /\ UNCHANGED <<wEdges, wStarted, wPc>>
    /\ UNCHANGED notWorkflowVars

\* The running node fails: the workflow halts, an Error event carries the
\* node's id and the error is saved on the message.
FailNode ==
    /\ wPc = "walking"
    /\ wRunning # "none"
    /\ wFailed' = wRunning
    /\ wRunning' = "none"
    /\ wEvents' = Append(wEvents, Event("Error", wRunning))
    /\ wDb' = upsert_message(wDb, [error |-> wRunning])
    /\ wPc' = "halted"
    /\ UNCHANGED <<wEdges, wStarted, wDone>>
    /\ UNCHANGED notWorkflowVars

WorkflowNext == LoadWorkflow \/ StartNode \/ CompleteNode \/ FailNode

SpecWorkflow == WorkflowInit /\ [][WorkflowNext]_vars

(***************************************************************************)
(* Properties of the workflow agent.                                       *)
(***************************************************************************)
\* The nodes from which a node is reached along the edges.
RECURSIVE Ancestors(_, _)
Ancestors(n, edges) ==
    Predecessors(n, edges) \cup
    UNION {Ancestors(a, edges) : a \in Predecessors(n, edges)}

\* The predecessors of a node that produce one of its declared inputs.
InputProducers(n, edges) == InputRefs(n) \cap Ancestors(n, edges)

StartedNodes == {wStarted[i].node : i \in DOMAIN wStarted}

\* C11: in every execution of a workflow, a node starts executing only after
\* every predecessor node that produces one of its declared inputs has
\* completed.
C11_TopologicalOrder ==
    \A i \in DOMAIN wStarted :
        InputProducers(wStarted[i].node, wEdges) \subseteq wStarted[i].done

\* The example workflow has run to its end: llm_step started with both of
\* its input producers, start and search_tool, complete.
C11_Witness ==
    /\ wEdges = ExampleEdges
    /\ wPc = "ended"
    /\ Len(wStarted) = 4
    /\ wStarted[3].node = "llm_step"
    /\ wStarted[3].done = {"start", "search_tool"}

\* C12: when a node fails the workflow halts: the failing node is the last
\* node ever started (no node after it in the workflow order executes, the
\* failing node itself never completes), the run's last event is an Error
\* event carrying the failing node's id, and the persisted turn records the
\* error at that node.
C12_FailingNodeHalts ==
    wFailed # "none" =>
        /\ wPc = "halted"
        /\ wRunning = "none"
        /\ wStarted[Len(wStarted)].node = wFailed
        /\ wFailed \notin wDone
        /\ \A n \in Nodes : wFailed \in Ancestors(n, wEdges) => n \notin StartedNodes
        /\ wEvents[Len(wEvents)] = Event("Error", wFailed)
        /\ "error" \in DOMAIN wDb.message
        /\ wDb.message.error = wFailed

\* start -> tool -> llm -> end with the tool node failing: llm and end have
\* not executed and the turn records the error at the tool node.
C12_Witness ==
    /\ wEdges = ExampleEdges
    /\ wFailed = "search_tool"
    /\ StartedNodes = {"start", "search_tool"}
    /\ wDb.message.error = "search_tool"
    /\ wPc = "halted"

(***************************************************************************)
(* Two requests served at once: one task per request, one store.           *)
(***************************************************************************)
Requests == {"r1", "r2"}
ChatIds == {"c1", "c2"}
MessageIds == {"m1", "m2"}

\* metadata["chat_id"], metadata["message_id"] of a request.
Metadata == [chat_id : ChatIds, message_id : MessageIds]

\* A plausible slip: the record is looked up by the chat alone.
MessageKeyChatOnly(metadata) == <<metadata.chat_id, "m1">>

\* Chats.upsert_message_to_chat_by_id_and_message_id(chat_id, message_id, ..):
\* the record written is the one both ids name.
MessageKey(metadata) == <<metadata.chat_id, metadata.message_id>>

\* The record under a key; a message not written yet is the empty turn.
TurnOf(store, key) == IF key \in DOMAIN store THEN store[key] ELSE EmptyTurn

\* One upsert by a request: the record its metadata names is replaced and the
\* write is logged with its writer.
UpsertBy(d, r, metadata, turn) ==
    LET key == MessageKey(metadata)
    IN  IF turn = TurnOf(d.store, key)
        THEN d
        ELSE [store |-> [k \in DOMAIN d.store \cup {key} |->
                            IF k = key THEN turn ELSE d.store[k]],
              log |-> Append(d.log, [by |-> r, key |-> key])]

ConcurrentInit ==
    /\ \E rt \in BOOLEAN :
         \E md \in [Requests -> Metadata] :
           \E st \in [Requests -> SeqsUpTo(Chunks, MaxChunks)] :
             /\ md["r1"] = [chat_id |-> "c1", message_id |-> "m1"]
             /\ md["r2"] # md["r1"]
             /\ cReq = [r \in Requests |->
                          [metadata |-> md[r], stream |-> st[r], realtime |-> rt,
                           content_blocks |-> <<>>, state |-> "streaming"]]
    /\ cDb = [store |-> <<>>, log |-> <<>>]
    /\ FilterIdle
    /\ DispatchIdle
    /\ ToolsIdle
    /\ WorkflowIdle
    /\ BridgeIdle
    /\ AdminIdle

\* The task of request r receives one chunk.
ReqChunk(r) ==
    /\ cReq[r].state = "streaming"
    /\ cReq[r].stream # <<>>
    /\ LET blocks == Append(cReq[r].content_blocks, Head(cReq[r].stream))
           key == MessageKey(cReq[r].metadata)
       IN  /\ cReq' = [cReq EXCEPT ![r].content_blocks = blocks,
                                   ![r].stream = Tail(@)]
           /\ cDb' = UpsertBy(cDb, r, cReq[r].metadata,
                              ChunkSave(TurnOf(cDb.store, key), blocks,
                                        cReq[r].realtime))
    /\ UNCHANGED notConcurrentVars

\* The stream of request r ends: its complete content is saved.
ReqDone(r) ==
    /\ cReq[r].state = "streaming"
    /\ cReq[r].stream = <<>>
    /\ LET key == MessageKey(cReq[r].metadata)
       IN  cDb' = UpsertBy(cDb, r, cReq[r].metadata,
                           PersistContent(TurnOf(cDb.store, key),
                                          cReq[r].content_blocks))
    /\ cReq' = [cReq EXCEPT ![r].state = "completed"]
    /\ UNCHANGED notConcurrentVars

\* The task of request r is cancelled.
ReqCancel(r) ==
    /\ cReq[r].state = "streaming"
    /\ LET key == MessageKey(cReq[r].metadata)
       IN  cDb' = UpsertBy(cDb, r, cReq[r].metadata,
                           CancelSave(TurnOf(cDb.store, key),
                                      cReq[r].content_blocks, cReq[r].realtime))
    /\ cReq' = [cReq EXCEPT ![r].state = "cancelled"]
    /\ UNCHANGED notConcurrentVars

ConcurrentNext ==
    \/ \E r \in Requests : ReqChunk(r)
    \/ \E r \in Requests : ReqDone(r)
    \/ \E r \in Requests : ReqCancel(r)

SpecConcurrent == ConcurrentInit /\ [][ConcurrentNext]_vars

\* What the run of request r alone leaves in its record.
OwnContent(r) ==
    IF cReq[r].realtime \/ cReq[r].state # "streaming"
    THEN serialize_content_blocks(cReq[r].content_blocks)
    ELSE ""

\* C13: for two concurrent requests with different (chat id, message id)
\* pairs and any interleaving of their steps, every write goes to the record
\* of the id pair the writing request owns, and each record's content
\* depends only on its own request's events.
C13_NoCrossWrite ==
    /\ \A i \in DOMAIN cDb.log :
         cDb.log[i].key = <<cReq[cDb.log[i].by].metadata.chat_id,
                            cReq[cDb.log[i].by].metadata.message_id>>
    /\ \A r \in Requests :
         TurnOf(cDb.store, <<cReq[r].metadata.chat_id,
                              cReq[r].metadata.message_id>>).message.content
           = OwnContent(r)

\* Two requests on two messages of one chat, their writes interleaved, each
\* record holding its own request's content.
C13_Witness ==
    /\ cReq["r1"].metadata.chat_id = cReq["r2"].metadata.chat_id
    /\ Len(cDb.log) >= 3
    /\ cDb.log[1].by = "r1"
    /\ cDb.log[2].by = "r2"
    /\ cDb.log[3].by = "r1"
    /\ cReq["r1"].state = "completed"
    /\ cReq["r2"].state = "cancelled"
    /\ OwnContent("r1") = "Hello world"
    /\ OwnContent("r2") = " world"

(***************************************************************************)
(* Pipeline server bridge: _iterate_async_gen_in_sync.                     *)
(***************************************************************************)
\* The chunks the asynchronous generator of a pipeline yields.
BridgeChunks == {"Hello", " world", "!"}

\* The end signal the background thread puts last.
None == "None"

\* A plausible slip: a bounded queue whose put gives up when it is full.
QueuePutDropping(q, x) == IF Len(q) >= 1 THEN q ELSE Append(q, x)

\* thread_queue.put(x) on queue.Queue(): no maxsize, so the put never waits.
QueuePut(q, x) == Append(q, x)

\* A plausible slip: the newest entry is taken first.
QueueGetNewest(q) == [item |-> q[Len(q)], rest |-> SubSeq(q, 1, Len(q) - 1)]

\* thread_queue.get(): the oldest entry.
QueueGet(q) == [item |-> Head(q), rest |-> Tail(q)]

BridgeInit ==
    /\ async_gen \in SeqsUpTo(BridgeChunks, MaxItems)
    /\ thread_queue = <<>>
    /\ bPushed = <<>>
    /\ bYielded = <<>>
    /\ bProducer = "running"
    /\ bConsumer = "waiting"
    /\ FilterIdle
    /\ DispatchIdle
    /\ ToolsIdle
    /\ WorkflowIdle
    /\ ConcurrentIdle
    /\ AdminIdle

\* Background thread: async for chunk in async_gen: thread_queue.put(chunk).
ProducerPut ==
    /\ bProducer = "running"
    /\ async_gen # <<>>
    /\ thread_queue' = QueuePut(thread_queue, Head(async_gen))
    /\ bPushed' = Append(bPushed, Head(async_gen))
    /\ async_gen' = Tail(async_gen)
    /\ UNCHANGED <<bYielded, bProducer, bConsumer>>
    /\ UNCHANGED notBridgeVars

\* Background thread, after the loop: thread_queue.put(None).
ProducerEnd ==
    /\ bProducer = "running"
    /\ async_gen = <<>>
    /\ thread_queue' = QueuePut(thread_queue, None)
    /\ bPushed' = Append(bPushed, None)
    /\ bProducer' = "done"
    /\ UNCHANGED <<async_gen, bYielded, bConsumer>>
    /\ UNCHANGED notBridgeVars

\* Background thread: the asynchronous generator raises. The exception
\* leaves the loop and asyncio.run, the thread ends, and the put of the end
\* signal that follows the loop is not reached.
ProducerRaise ==
    /\ bProducer = "running"
    /\ bProducer' = "raised"
    /\ UNCHANGED <<async_gen, thread_queue, bPushed, bYielded, bConsumer>>
    /\ UNCHANGED notBridgeVars

\* Main thread: item = thread_queue.get() waits for an entry; None breaks
\* the loop, anything else is yielded.
ConsumerGet ==
    /\ bConsumer = "waiting"
    /\ thread_queue # <<>>
    /\ LET got == QueueGet(thread_queue)
       IN  /\ thread_queue' = got.rest
           /\ IF got.item = None
              THEN /\ bConsumer' = "stopped"
                   /\ UNCHANGED bYielded
              ELSE /\ bYielded' = Append(bYielded, got.item)
                   /\ UNCHANGED bConsumer
    /\ UNCHANGED <<async_gen, bPushed, bProducer>>
    /\ UNCHANGED notBridgeVars

BridgeNext == ProducerPut \/ ProducerEnd \/ ProducerRaise \/ ConsumerGet

SpecBridge == BridgeInit /\ [][BridgeNext]_vars

\* s is an initial segment of t.
IsPrefix(s, t) == Len(s) <= Len(t) /\ SubSeq(t, 1, Len(s)) = s

C15_Original == Len(thread_queue) <= MaxItems

\* C15, amended: the channel has no capacity: the put of the background
\* thread never waits for the main thread, the queue holds every entry put
\* and not yet taken, in order and however many, and no entry is dropped.
C15_UnboundedNoDrop ==
    /\ bProducer = "running" => ENABLED (ProducerPut \/ ProducerEnd)
    /\ Len(thread_queue) = Len(bPushed) - Len(bYielded)
                             - (IF bConsumer = "stopped" THEN 1 ELSE 0)
    /\ SubSeq(bPushed, Len(bPushed) - Len(thread_queue) + 1, Len(bPushed))
         = thread_queue

\* The background thread has put three chunks and the end signal while the
\* main thread took nothing: the queue holds all four entries.
C15_Witness ==
    /\ bYielded = <<>>
    /\ bConsumer = "waiting"
    /\ bProducer = "done"
    /\ Len(thread_queue) = MaxItems + 1

(***************************************************************************)
(* Properties of the dispatch: retries and the reporting of failures.      *)
(***************************************************************************)
\* C16: the selected handler is invoked at most once for a request,
\* whatever its outcome: once the handler has left Idle it has been invoked
\* exactly once, and a request that ended was served by one invocation.
C16_NoAutomaticRetry ==
    /\ dInvokes <= 1
    /\ dHState # "Idle" => dInvokes = 1
    /\ dPc = "ended" => dInvokes = 1

\* The backend call failed on the network, the request ended, and the
\* handler was invoked once.
C16_Witness ==
    /\ dPc = "ended"
    /\ dFailure = "client_error"
    /\ dInvokes = 1

\* What a failed backend call leaves behind.
Outcome ==
    [error_persisted |-> "error" \in DOMAIN db.message,
     writes |-> Len(db.writes),
     response |-> dHttp,
     state |-> dHState]

\* C17: a timeout of the backend call has the outcome of a connection
\* error: one error write on the message, and HTTP 500 with the generic
\* "Server Connection Error" to the caller.
C17_TimeoutAsConnectionError ==
    dFailure \in {"timeout", "client_error"} =>
        Outcome = [error_persisted |-> TRUE,
                   writes |-> 1,
                   response |-> [status |-> 500,
                                 detail |-> "Server Connection Error"],
                   state |-> "Error"]

\* The call to the remote server timed out and the request has ended.
C17_Witness ==
    /\ dFailure = "timeout"
    /\ dHandler = "RemoteServerHandler"
    /\ dPc = "ended"

\* C18: when an in-process handler raises in its own logic the request ends
\* with an Error event in the response body; the response keeps its
\* success status and no server error is raised.
C18_InternalErrorInConversation ==
    dFailure = "internal" =>
        /\ dHandler \in InProcessHandlers
        /\ dEvents # <<>>
        /\ dEvents[Len(dEvents)].type = "Error"
        /\ dHttp.status = 200
        /\ dHttp.detail # "Server Connection Error"

\* A custom agent raised after it had streamed "Hello".
C18_Witness ==
    /\ dFailure = "internal"
    /\ dHandler = "CustomAgentHandler"
    /\ dEvents = <<Event("PartialContent", "Hello"),
                   Event("Error", ErrorMessage("internal"))>>

\* C19: a structured error of the backend reaches the caller with the
\* backend's own status and the detail extracted from its answer, never as
\* the generic connection error.
C19_StructuredErrorPassedThrough ==
    dFailure = "http_error" =>
        /\ dBackend \in BackendErrors
        /\ dHttp.status = dBackend.status
        /\ dHttp.detail = dBackend.detail
        /\ dHttp.detail # "Server Connection Error"

\* The backend refused the request for quota and the caller was answered
\* 429 with the backend's detail.
C19_Witness ==
    /\ dFailure = "http_error"
    /\ dBackend.status = 429
    /\ dHttp = [status |-> 429, detail |-> "quota exceeded"]

\* C20 as stated: after a cancellation the persisted turn carries a
\* "cancelled" status.
C20_Original ==
    dHState = "Cancelled" =>
        /\ "status" \in DOMAIN db.message
        /\ db.message.status = "cancelled"

\* C20, amended: after a cancellation the persisted turn carries the
\* partial content and nothing else: no error detail and no status. The
\* cancellation is told to the caller by the "task-cancelled" event alone.
C20_CancelledIsNotAnError ==
    dHState = "Cancelled" =>
        /\ DOMAIN db.message = {"content"}
        /\ db.message.content = serialize_content_blocks(content_blocks)
        /\ dFailure = "none"
        /\ dEvents[Len(dEvents)] = Event("task-cancelled", "")

\* Cancelled after "Hello" without real-time save: the turn holds "Hello".
C20_Witness ==
    /\ dHState = "Cancelled"
    /\ ~dRealtime
    /\ dStream # <<>>
    /\ db.message = [content |-> "Hello"]

HandlerTransitions ==
    {<<"Idle", "Running">>, <<"Running", "Streaming">>, <<"Running", "Error">>,
     <<"Streaming", "Completed">>, <<"Streaming", "Error">>,
     <<"Streaming", "Cancelled">>}

PartialContentCount(events) ==
    Cardinality({i \in DOMAIN events : events[i].type = "PartialContent"})

\* C22: a handler invocation moves only along Idle -> Running -> Streaming
\* (which repeats with each PartialContent) -> Completed | Error |
\* Cancelled; from Completed, Error or Cancelled it never changes state
\* again and no further PartialContent is emitted.
C22_TerminalStatesAbsorbing ==
    [][/\ dHState' # dHState => <<dHState, dHState'>> \in HandlerTransitions
       /\ dHState \in {"Completed", "Error", "Cancelled"} =>
            /\ dHState' = dHState
            /\ PartialContentCount(dEvents') = PartialContentCount(dEvents)
       /\ PartialContentCount(dEvents') # PartialContentCount(dEvents) =>
            (dHState = "Streaming" /\ dHState' = "Streaming")]_vars

\* The run was cancelled after "Hello" while the backend had more to send:
\* nothing more was emitted.
C22_Witness ==
    /\ dHState = "Cancelled"
    /\ dStream = <<" world">>
    /\ dEvents = <<Event("PartialContent", "Hello"), Event("task-cancelled", "")>>

(***************************************************************************)
(* Properties of the dispatch: cancellation signal, teardown, segments.    *)
(***************************************************************************)
\* C23: once the cancellation signal of a request is set it stays set with
\* the same reason in every later state, and it is only ever set by the
\* caller's abort or by the coordinator.
C23_SignalMonotonic ==
    [][/\ dSignal.set => dSignal' = dSignal
       /\ dSignal' # dSignal =>
            (dSignal'.set /\ dSignal'.reason \in {"caller-abort", "coordinator"})]_vars

\* The coordinator set the signal, the run was cancelled on it and torn
\* down, and the signal still stands with its reason.
C23_Witness ==
    /\ dSignal = [set |-> TRUE, reason |-> "coordinator"]
    /\ dHState = "Cancelled"
    /\ dResources = "closed"

\* C24: in a cancelled run the content emitted so far is in persistence
\* when the run becomes Cancelled, whether or not an external call of the
\* handler is still in flight; the resources are released in a later step,
\* which writes nothing, and the turn still holds that content then.
C24_FlushBeforeTeardown ==
    [][/\ (dHState' = "Cancelled" /\ dHState # "Cancelled") =>
            /\ db'.message.content = EmittedContent(dEvents')
            /\ dResources' = dResources
            /\ dExternal' = dExternal
       /\ (dHState = "Cancelled" /\ dResources' # dResources) =>
            /\ db' = db
            /\ db.message.content = EmittedContent(dEvents)]_vars

\* Cancelled after "Hello" without real-time save while an external call
\* was blocked: "Hello" is saved, the resources are closed and the call is
\* still in flight.
C24_Witness ==
    /\ dHState = "Cancelled"
    /\ ~dRealtime
    /\ dResources = "closed"
    /\ dExternal = "in_flight"
    /\ db.message.content = "Hello"

\* C26: the three segments fail on their own. The loss of the caller's
\* connection changes nothing in the exchange with the backend or in the
\* external call; a timeout or drop of the backend connection leaves the
\* external call and the caller's connection as they are; the return or
\* timeout of the external call ends neither of the other two; and a run
\* that completes after the caller was lost still saves all it received.
C26_SegmentsNotLinked ==
    [][/\ dCaller' # dCaller =>
            (dHState' = dHState /\ dPc' = dPc /\ dStream' = dStream
             /\ dExternal' = dExternal /\ dSignal' = dSignal)
       /\ (dFailure = "none" /\ dFailure' \in {"timeout", "client_error", "stream_drop"}) =>
            (dExternal' = dExternal /\ dCaller' = dCaller)
       /\ dExternal' # dExternal =>
            (dHState' = dHState /\ dPc' = dPc /\ dCaller' = dCaller)
       /\ (dCaller.lost /\ dHState' = "Completed" /\ dHState # "Completed") =>
            db'.message.content = serialize_content_blocks(content_blocks)]_vars

\* The caller was lost before any chunk came; both chunks were received
\* from the backend afterwards and "Hello world" was saved.
C26_Witness ==
    /\ dCaller = [lost |-> TRUE, received |-> 0]
    /\ dHandler = "RemoteServerHandler"
    /\ dHState = "Completed"
    /\ db.message.content = "Hello world"

(***************************************************************************)
(* Properties of the bridge: termination.                                  *)
(***************************************************************************)
\* C25 as stated: the main thread never waits on the queue for ever: in
\* every state either its loop has stopped or a step of one of the two
\* threads is still to come.
C25_Original == bConsumer = "stopped" \/ ENABLED BridgeNext

(***************************************************************************)
(* Properties of call_agent: the depth of the nesting.                     *)
(***************************************************************************)
\* C27 as stated: a configured limit bounds the nesting of call_agent and a
\* call that would exceed it is rejected. Nothing in call_agent rejects a
\* call, so whatever the limit a chain of agents that call one another, or
\* of one agent that calls itself, goes past it; here the limit is the
\* largest that the horizon of the model can tell from none.
C27_Original == Len(tStack) < MaxDepth

(***************************************************************************)
(* Admin front end: the agents API client (agents.ts), the list page       *)
(* (Agents.svelte) and the editor (AgentEditor.svelte).                    *)
(***************************************************************************)
AgentIds == {"a1"}
Calls == 1..NCalls

\* localStorage.token.
localStorage_token == "token"

\* let agent = { id: '', ..., definition: '', ... } of AgentEditor.
NewAgent == [id |-> "", definition |-> ""]

\* What the form reads of a response body that is no agent: its fields are
\* undefined.
NotAnAgent == [id |-> "undefined", definition |-> "undefined"]

NoCall == [kind |-> "none", id |-> "none", body |-> NewAgent, pc |-> "idle",
           response |-> [ok |-> FALSE, data |-> {}], returned |-> {}]

\* The server's side of the calls: the document at /agents/id/{id}, and the
\* list after a create, an update or a delete.
ServerAgent(list, id) ==
    IF \E a \in list : a.id = id
    THEN CHOOSE a \in list : a.id = id
    ELSE NotAnAgent

ServerApply(list, call) ==
    CASE call.kind = "createAgent" ->
            IF call.body.id \in AgentIds /\ \A a \in list : a.id # call.body.id
            THEN list \cup {call.body}
            ELSE list
      [] call.kind = "updateAgent" ->
            IF \E a \in list : a.id = call.id
            THEN {a \in list : a.id # call.id}
                 \cup {[id |-> call.id, definition |-> call.body.definition]}
            ELSE list
      [] call.kind = "deleteAgent" -> {a \in list : a.id # call.id}
      [] OTHER -> list

\* getAgent = async (id) => fetch(`/agents/id/${id}`) then response.json():
\* the parameters take the arguments by position, so id is the first
\* argument of the call whatever the caller meant it to be.
getAgent(arguments, list) ==
    LET id == arguments[1]
    IN  [id |-> id, json |-> ServerAgent(list, id)]

\* getAgents: the value the store is set to, and the value returned.
getAgentsStoreKeep(store, response) ==
    IF response.ok THEN response.data ELSE store

getAgentsStore(store, response) ==
    IF response.ok THEN response.data ELSE {}

getAgentsReturn(response) ==
    IF response.ok THEN response.data ELSE {}

\* The calls are numbered in the order they are made.
NextCall(k) ==
    /\ aCalls[k].pc = "idle"
    /\ \A j \in Calls : j < k => aCalls[j].pc # "idle"

AdminInit ==
    /\ aServer \in SUBSET {[id |-> i, definition |-> "d0"] : i \in AgentIds}
    /\ agents = {}
    /\ aCalls = [k \in Calls |-> NoCall]
    /\ agentId = "null"
    /\ agent = NewAgent
    /\ eFetch = "none"
    /\ ePc = "closed"
    /\ FilterIdle
    /\ DispatchIdle
    /\ ToolsIdle
    /\ WorkflowIdle
    /\ ConcurrentIdle
    /\ BridgeIdle

\* Agents.svelte onMount: getAgents(localStorage.token) sends its GET.
AgentsOnMount(k) ==
    /\ NextCall(k)
    /\ aCalls' = [aCalls EXCEPT ![k] =
                    [NoCall EXCEPT !.kind = "getAgents", !.pc = "refreshing"]]
    /\ UNCHANGED <<aServer, agents, agentId, agent, eFetch, ePc>>
    /\ UNCHANGED notAdminVars

\* Agents.svelte handleDelete, confirmed: deleteAgent sends its DELETE.
handleDelete(k, id) ==
    /\ NextCall(k)
    /\ aCalls' = [aCalls EXCEPT ![k] =
                    [NoCall EXCEPT !.kind = "deleteAgent", !.id = id,
                                   !.pc = "mutating"]]
    /\ UNCHANGED <<aServer, agents, agentId, agent, eFetch, ePc>>
    /\ UNCHANGED notAdminVars

\* AgentEditor is created with its agentId prop and the empty form.
EditorOpen(id) ==
    /\ ePc = "closed"
    /\ agentId' = id
    /\ agent' = NewAgent
    /\ eFetch' = "none"
    /\ ePc' = "created"
    /\ UNCHANGED <<aServer, agents, aCalls>>
    /\ UNCHANGED notAdminVars

\* AgentEditor onMount: if (agentId) agent = await
\* getAgent(localStorage.token, agentId).
EditorOnMount ==
    /\ ePc = "created"
    /\ IF agentId # "null"
       THEN LET fetched == getAgent(<<localStorage_token, agentId>>, aServer)
            IN  /\ eFetch' = fetched.id
                /\ agent' = fetched.json
       ELSE UNCHANGED <<eFetch, agent>>
    /\ ePc' = "mounted"
    /\ UNCHANGED <<aServer, agents, aCalls, agentId>>
    /\ UNCHANGED notAdminVars

\* The form's bind:value inputs: the user types into the mounted form.
EditForm(id) ==
    /\ ePc = "mounted"
    /\ agent' = [id |-> IF agentId = "null" THEN id ELSE agent.id,
                 definition |-> "d1"]
    /\ agent' # agent
    /\ UNCHANGED <<aServer, agents, aCalls, agentId, eFetch, ePc>>
    /\ UNCHANGED notAdminVars

\* AgentEditor handleSubmit: updateAgent(token, agentId, agent) if agentId,
\* createAgent(token, agent) otherwise; the call sends its POST, and the
\* goto that follows leaves the editor.
handleSubmit(k) ==
    /\ ePc = "mounted"
    /\ NextCall(k)
    /\ LET call == IF agentId # "null"
                   THEN [NoCall EXCEPT !.kind = "updateAgent", !.id = agentId,
                                       !.body = agent, !.pc = "mutating"]
                   ELSE [NoCall EXCEPT !.kind = "createAgent",
                                       !.body = agent, !.pc = "mutating"]
       IN  aCalls' = [aCalls EXCEPT ![k] = call]
    /\ agentId' = "null"
    /\ agent' = NewAgent
    /\ eFetch' = "none"
    /\ ePc' = "closed"
    /\ UNCHANGED <<aServer, agents>>
    /\ UNCHANGED notAdminVars

\* The server handles the POST or DELETE; the awaited fetch returns, whatever
\* the status, and the call goes on to getAgents(token), which sends its GET.
ServerMutation(k) ==
    /\ aCalls[k].pc = "mutating"
    /\ aServer' = ServerApply(aServer, aCalls[k])
    /\ aCalls' = [aCalls EXCEPT ![k].pc = "refreshing"]
    /\ UNCHANGED <<agents, agentId, agent, eFetch, ePc>>
    /\ UNCHANGED notAdminVars

\* The server handles the GET /agents of a call: the response carries the
\* list as it is now, or is not ok.
ServerList(k) ==
    /\ aCalls[k].pc = "refreshing"
    /\ \E ok \in BOOLEAN :
        aCalls' = [aCalls EXCEPT ![k].pc = "responded",
                                 ![k].response =
                                    [ok |-> ok,
                                     data |-> IF ok THEN aServer ELSE {}]]
    /\ UNCHANGED <<aServer, agents, agentId, agent, eFetch, ePc>>
    /\ UNCHANGED notAdminVars

\* getAgents of a call resumes with its response: sets the store, returns.
getAgentsResolve(k) ==
    /\ aCalls[k].pc = "responded"
    /\ agents' = getAgentsStore(agents, aCalls[k].response)
    /\ aCalls' = [aCalls EXCEPT ![k].pc = "resolved",
                                ![k].returned =
                                    getAgentsReturn(aCalls[k].response)]
    /\ UNCHANGED <<aServer, agentId, agent, eFetch, ePc>>
    /\ UNCHANGED notAdminVars

AdminNext ==
    \/ \E k \in Calls : AgentsOnMount(k)
    \/ \E k \in Calls, id \in AgentIds : handleDelete(k, id)
    \/ \E id \in AgentIds \cup {"null"} : EditorOpen(id)
    \/ EditorOnMount
    \/ \E id \in AgentIds : EditForm(id)
    \/ \E k \in Calls : handleSubmit(k)
    \/ \E k \in Calls : ServerMutation(k)
    \/ \E k \in Calls : ServerList(k)
    \/ \E k \in Calls : getAgentsResolve(k)

SpecAdmin == AdminInit /\ [][AdminNext]_vars

(***************************************************************************)
(* Properties of the admin front end.                                      *)
(***************************************************************************)
\* Every call made is a createAgent, updateAgent or deleteAgent, and each has
\* resolved, its follow-up refresh included.
AllSettled ==
    /\ \A k \in Calls :
        \/ aCalls[k].pc = "idle"
        \/ /\ aCalls[k].pc = "resolved"
           /\ aCalls[k].kind \in {"createAgent", "updateAgent", "deleteAgent"}
    /\ \E k \in Calls : aCalls[k].pc = "resolved"

\* C28 as stated: once every call and its follow-up refresh has resolved,
\* and every refresh was answered ok, the store equals the server's list.
\* The refresh of an earlier call can be answered before a later mutation
\* and resume after the later call's refresh, and then the store keeps the
\* older list.
C28_Original ==
    (AllSettled /\ \A k \in Calls :
                      aCalls[k].pc = "resolved" => aCalls[k].response.ok)
        => agents = aServer

\* C29 as stated: mounting with an agentId asks for /agents/id/{agentId}
\* and loads that agent into the form, mounting with none fetches nothing;
\* submit calls updateAgent with the same agentId, or createAgent when there
\* is none. The request is made with the token in the place of the id.
C29_Original ==
    [][/\ (ePc = "created" /\ ePc' = "mounted")
            => IF agentId # "null"
               THEN eFetch' = agentId /\ agent' = ServerAgent(aServer, agentId)
               ELSE eFetch' = "none" /\ agent' = agent
       /\ (ePc = "mounted" /\ ePc' = "closed")
            => \E k \in Calls :
                /\ aCalls[k].pc = "idle"
                /\ aCalls'[k].pc = "mutating"
                /\ IF agentId # "null"
                   THEN aCalls'[k].kind = "updateAgent" /\ aCalls'[k].id = agentId
                   ELSE aCalls'[k].kind = "createAgent"]_vars

\* C30: when getAgents resumes with its response, the store becomes the
\* value it returns, which is the body of an ok response and the empty list
\* otherwise, whatever the store held before.
C30_StoreIsReturnedValue ==
    [][\A k \in Calls :
          (aCalls[k].pc = "responded" /\ aCalls'[k].pc = "resolved")
              => /\ agents' = aCalls'[k].returned
                 /\ aCalls'[k].returned =
                        IF aCalls[k].response.ok
                        THEN aCalls[k].response.data
                        ELSE {}]_vars

\* A refresh that loaded a non-empty list has resolved, a refresh that was
\* not ok has resolved, and the store is empty: the failed refresh resumed
\* after the other and replaced the loaded list.
C30_Witness ==
    \E k1, k2 \in Calls :
        /\ aCalls[k1].pc = "resolved"
        /\ aCalls[k1].response.ok
        /\ aCalls[k1].returned # {}
        /\ aCalls[k2].pc = "resolved"
        /\ ~aCalls[k2].response.ok
        /\ aCalls[k2].returned = {}
        /\ agents = {}

====
